---- MODULE Spec2Model ----
(***************************************************************************)
(* Model of plot.py: the script opens a whitespace-separated table, loads  *)
(* it with numpy.loadtxt and renders a grouped bar chart with one group    *)
(* per row and one bar series per throughput column.  One action per       *)
(* statement of the script; numbers are exact rationals [n, d].            *)
(***************************************************************************)
EXTENDS Integers, Sequences, FiniteSets, TLC

VARIABLES file, xlabel, title, output,
          pc, fileOpen, data, parameter_labels, x, n_channels, i,
          ax, shown, files, error, exitcode

vars == <<file, xlabel, title, output, pc, fileOpen, data, parameter_labels,
          x, n_channels, i, ax, shown, files, error, exitcode>>

args == <<file, xlabel, title, output>>

\* Largest number of data rows of an input file.
MaxRows == 2

---------------------------------------------------------------------------
\* Optional values: None, or a one-element tuple holding the value.
None == <<>>

Some(v) == <<v>>

---------------------------------------------------------------------------
\* Exact arithmetic on the numbers of the script.
Abs(a) == IF a < 0 THEN -a ELSE a

RECURSIVE GCD(_, _)
GCD(a, b) == IF b = 0 THEN a ELSE GCD(b, a % b)

Rat(n, d) == LET g == GCD(Abs(n), d) IN [n |-> n \div g, d |-> d \div g]

FromInt(k) == [n |-> k, d |-> 1]

RNeg(p) == [n |-> -p.n, d |-> p.d]

RAdd(p, q) == Rat(p.n * q.d + q.n * p.d, p.d * q.d)

RSub(p, q) == RAdd(p, RNeg(q))

RMul(p, q) == Rat(p.n * q.n, p.d * q.d)

\* p / q for q # 0.
RDiv(p, q) == IF q.n > 0 THEN Rat(p.n * q.d, p.d * q.n)
                         ELSE Rat(-(p.n * q.d), p.d * (-q.n))

RLess(p, q) == p.n * q.d < q.n * p.d

---------------------------------------------------------------------------
\* Cells: a number, the float nan (which loadtxt accepts), or a token that
\* is not a number.
Num(v) == [tok |-> "num", v |-> v]

NaN == [tok |-> "nan", v |-> FromInt(0)]

Text == [tok |-> "text", v |-> FromInt(0)]

WIDTH == Rat(1, 2)

MULTIPLIER == Rat(1, 1000000)

channel_labels == <<"async-channel::bounded", "flume::bounded", "futures::mpsc",
                    "kanal", "postage::mpsc", "tachyonix", "thingbuf",
                    "tokio::mpsc">>

prop_cycle == <<"tab:blue", "tab:orange", "tab:green", "tab:gray",
                "tab:purple", "tab:red", "tab:brown", "tab:pink">>

\* Columns of a well-formed table: the parameter and one column per channel.
NCols == 1 + Len(channel_labels)

---------------------------------------------------------------------------
\* Input files.  A file is missing, or holds 0..MaxRows rows of cells.
ParamCells == {Num(FromInt(1)), Num(Rat(5, 2)), Num(Rat(-3, 2)), NaN}

Widths == {1, 2, 3, NCols, NCols + 1}

Scales == {1, 2}

\* Row r of a table of width w: the parameter, then the throughputs
\* s*(100, 200, ...) shifted by 50 per row.
Row(r, w, p, s) ==
    [j \in 1..w |-> IF j = 1 THEN p
                    ELSE Num(FromInt(s * (100 * (j - 1) + 50 * (r - 1))))]

Table(R, w, ps, s) == [r \in 1..R |-> Row(r, w, ps[r], s)]

\* The row (p, 100, 200) of the wrong width.
ShortRow(row) == <<row[1], Num(FromInt(100)), Num(FromInt(200))>>

\* The row with its last cell replaced by a token that is not a number.
TextRow(row) == [row EXCEPT ![Len(row)] = Text]

Tables ==
    LET Clean == UNION {{Table(R, w, ps, s) : ps \in [1..R -> ParamCells]} :
                            <<R, w, s>> \in (0..MaxRows) \X Widths \X Scales}
        Short == {[t EXCEPT ![r] = ShortRow(t[r])] :
                      <<t, r>> \in {tr \in Clean \X (1..MaxRows) : tr[2] <= Len(tr[1])}}
        Texts == {[t EXCEPT ![r] = TextRow(t[r])] :
                      <<t, r>> \in {tr \in Clean \X (1..MaxRows) : tr[2] <= Len(tr[1])}}
    IN  Clean \cup Short \cup Texts

Missing == [exists |-> FALSE, rows |-> <<>>]

Files == {Missing} \cup {[exists |-> TRUE, rows |-> t] : t \in Tables}

Titles == {None, Some("t")}

XLabels == {None, Some("x")}

Outputs == {None, Some("out.png"), Some("nodir/out.png")}

\* Paths the process can create a file at.
WritablePaths == {Some("out.png")}

---------------------------------------------------------------------------
\* The array state before anything is bound, and the empty axes.
NoArray == [shape |-> <<>>, a |-> <<>>]

NoAxes == [created |-> FALSE, bars |-> <<>>, title |-> None, xlabel |-> None,
           ylabel |-> None, xticks |-> None, xticklabels |-> None,
           legend |-> None]

Init ==
    /\ file \in Files
    /\ xlabel \in XLabels
    /\ title \in Titles
    /\ output \in Outputs
    /\ pc = "open"
    /\ fileOpen = FALSE
    /\ data = NoArray
    /\ parameter_labels = <<>>
    /\ x = <<>>
    /\ n_channels = 0
    /\ i = 0
    /\ ax = NoAxes
    /\ shown = FALSE
    /\ files = {}
    /\ error = None
    /\ exitcode = None

\* An exception of the given type leaves the statement at `where`.
Raise(type, where) ==
    /\ error' = Some([type |-> type, where |-> where])
    /\ pc' = "raise"

---------------------------------------------------------------------------
\* with open(args.file) as f:
Open ==
    /\ pc = "open"
    /\ IF file.exists
       THEN /\ fileOpen' = TRUE
            /\ pc' = "loadtxt"
            /\ UNCHANGED <<error, exitcode>>
       ELSE \* the with block is never entered; the exception ends the process
            /\ error' = Some([type |-> "FileNotFoundError", where |-> "open"])
            /\ pc' = "done"
            /\ exitcode' = Some(1)
            /\ UNCHANGED fileOpen
    /\ UNCHANGED <<args, data, parameter_labels, x, n_channels, i, ax, shown, files>>

\* numpy.loadtxt: every cell must convert to float and every row must have
\* the width of the first one.
Loadable(rows) ==
    /\ \A r \in 1..Len(rows) : \A j \in 1..Len(rows[r]) : rows[r][j].tok # "text"
    /\ \A r \in 1..Len(rows) : Len(rows[r]) = Len(rows[1])

\* The shape loadtxt returns (ndmin = 0): axes of length 1 are squeezed
\* away, and an empty file gives an empty 1-d array.
Squeeze(rows) ==
    LET R == Len(rows)
        w == IF R = 0 THEN 0 ELSE Len(rows[1])
    IN  IF R = 0 THEN <<0>>
        ELSE IF R = 1 /\ w = 1 THEN <<>>
        ELSE IF R = 1 THEN <<w>>
        ELSE IF w = 1 THEN <<R>>
        ELSE <<R, w>>

\* data = numpy.loadtxt(f)
LoadTxtClosing ==
    /\ pc = "loadtxt"
    /\ IF Loadable(file.rows)
       THEN /\ data' = [shape |-> Squeeze(file.rows), a |-> file.rows]
            /\ pc' = "labels"
            /\ UNCHANGED error
       ELSE /\ Raise("ValueError", "loadtxt")
            /\ UNCHANGED data
    /\ fileOpen' = FALSE
    /\ UNCHANGED <<args, parameter_labels, x, n_channels, i, ax, shown,
                   files, exitcode>>

LoadTxt ==
    /\ pc = "loadtxt"
    /\ IF Loadable(file.rows)
       THEN /\ data' = [shape |-> Squeeze(file.rows), a |-> file.rows]
            /\ pc' = "labels"
            /\ UNCHANGED error
       ELSE /\ Raise("ValueError", "loadtxt")
            /\ UNCHANGED data
    /\ UNCHANGED <<args, fileOpen, parameter_labels, x, n_channels, i, ax,
                   shown, files, exitcode>>

\* int(param): truncation toward zero.
IntCastFloor(v) == v.n \div v.d

IntCast(v) == IF v.n >= 0 THEN v.n \div v.d ELSE -((-v.n) \div v.d)

\* parameter_labels = [int(param) for param in data[:,0]]
ParameterLabels ==
    /\ pc = "labels"
    /\ IF Len(data.shape) # 2
       THEN /\ Raise("IndexError", "plot")
            /\ UNCHANGED parameter_labels
       ELSE IF \E r \in 1..Len(data.a) : data.a[r][1].tok = "nan"
       THEN /\ Raise("ValueError", "plot")
            /\ UNCHANGED parameter_labels
       ELSE /\ parameter_labels' = [r \in 1..Len(data.a) |-> IntCast(data.a[r][1].v)]
            /\ pc' = "transpose"
            /\ UNCHANGED error
    /\ UNCHANGED <<args, fileOpen, data, x, n_channels, i, ax, shown, files,
                   exitcode>>

\* data = numpy.transpose(data[:, 1:]): row i of the result is column i+1
\* of the table (0-based).
Transposed(a) ==
    [c \in 1..(Len(a[1]) - 1) |-> [r \in 1..Len(a) |-> a[r][c + 1]]]

\* x = numpy.arange(len(parameter_labels))
Arange(n) == [r \in 1..n |-> r - 1]

\* Lines 42-44.
Transpose ==
    /\ pc = "transpose"
    /\ data' = [shape |-> <<data.shape[2] - 1, data.shape[1]>>,
                a |-> Transposed(data.a)]
    /\ x' = Arange(Len(parameter_labels))
    /\ n_channels' = Len(Transposed(data.a))
    /\ pc' = "subplots"
    /\ UNCHANGED <<args, fileOpen, parameter_labels, i, ax, shown, files,
                   error, exitcode>>

\* ax = plt.subplots()[1]
Subplots ==
    /\ pc = "subplots"
    /\ ax' = [ax EXCEPT !.created = TRUE]
    /\ i' = 0
    /\ pc' = "bar"
    /\ UNCHANGED <<args, fileOpen, data, parameter_labels, x, n_channels,
                   shown, files, error, exitcode>>

\* delta = -WIDTH/2.0 + i*WIDTH/(n_channels-1), for n_channels # 1.
DeltaOverN(k, n) ==
    RAdd(RDiv(RNeg(WIDTH), FromInt(2)), RDiv(RMul(FromInt(k), WIDTH), FromInt(n)))

Delta(k, n) ==
    RAdd(RDiv(RNeg(WIDTH), FromInt(2)), RDiv(RMul(FromInt(k), WIDTH), FromInt(n - 1)))

\* WIDTH/n_channels, the width of one bar.
BarWidthFull(n) == WIDTH

BarWidth(n) == RDiv(WIDTH, FromInt(n))

\* col*MULTIPLIER
Scaled(col) ==
    [r \in 1..Len(col) |-> IF col[r].tok = "num"
                           THEN Num(RMul(col[r].v, MULTIPLIER)) ELSE col[r]]

\* The colour the axes' property cycle gives to the k-th bar call (k from 0).
CycleColorShifted(k) == prop_cycle[((k + 1) % Len(prop_cycle)) + 1]

CycleColor(k) == prop_cycle[(k % Len(prop_cycle)) + 1]

\* The for loop of line 48 has no further item.
LoopDoneEarly == i >= n_channels - 1

LoopDone == i >= n_channels

\* One iteration of: for i, col in enumerate(data)
Bar ==
    /\ pc = "bar"
    /\ IF LoopDone
       THEN /\ pc' = "title"
            /\ UNCHANGED <<ax, i, error>>
       ELSE IF n_channels - 1 = 0
       THEN /\ Raise("ZeroDivisionError", "plot")
            /\ UNCHANGED <<ax, i>>
       ELSE IF i + 1 > Len(channel_labels)
       THEN /\ Raise("IndexError", "plot")
            /\ UNCHANGED <<ax, i>>
       ELSE /\ ax' = [ax EXCEPT !.bars = Append(@,
                        [x      |-> [r \in 1..Len(x) |->
                                        RAdd(FromInt(x[r]), Delta(i, n_channels))],
                         height |-> Scaled(data.a[i + 1]),
                         width  |-> BarWidth(n_channels),
                         label  |-> channel_labels[i + 1],
                         color  |-> CycleColor(Len(@))])]
            /\ i' = i + 1
            /\ UNCHANGED <<pc, error>>
    /\ UNCHANGED <<args, fileOpen, data, parameter_labels, x, n_channels,
                   shown, files, exitcode>>

\* if title is not None: ax.set_title(title)
SetTitle ==
    /\ pc = "title"
    /\ ax' = IF title # None THEN [ax EXCEPT !.title = title] ELSE ax
    /\ pc' = "xlabel"
    /\ UNCHANGED <<args, fileOpen, data, parameter_labels, x, n_channels, i,
                   shown, files, error, exitcode>>

\* if x_label is not None: ax.set_xlabel(x_label)
SetXlabel ==
    /\ pc = "xlabel"
    /\ ax' = IF xlabel # None THEN [ax EXCEPT !.xlabel = xlabel] ELSE ax
    /\ pc' = "ylabel"
    /\ UNCHANGED <<args, fileOpen, data, parameter_labels, x, n_channels, i,
                   shown, files, error, exitcode>>

\* ax.set_ylabel('msg/us')
SetYlabel ==
    /\ pc = "ylabel"
    /\ ax' = [ax EXCEPT !.ylabel = Some("msg/us")]
    /\ pc' = "xticks"
    /\ UNCHANGED <<args, fileOpen, data, parameter_labels, x, n_channels, i,
                   shown, files, error, exitcode>>

\* ax.set_xticks(x)
SetXticks ==
    /\ pc = "xticks"
    /\ ax' = [ax EXCEPT !.xticks = Some(x)]
    /\ pc' = "xticklabels"
    /\ UNCHANGED <<args, fileOpen, data, parameter_labels, x, n_channels, i,
                   shown, files, error, exitcode>>

\* ax.set_xticklabels(parameter_labels)
SetXticklabels ==
    /\ pc = "xticklabels"
    /\ ax' = [ax EXCEPT !.xticklabels = Some(parameter_labels)]
    /\ pc' = "legend"
    /\ UNCHANGED <<args, fileOpen, data, parameter_labels, x, n_channels, i,
                   shown, files, error, exitcode>>

\* ax.legend(loc='upper left'): one entry per labelled bar series, in the
\* order the series were drawn.
Legend ==
    /\ pc = "legend"
    /\ ax' = [ax EXCEPT !.legend =
                 Some([k \in 1..Len(ax.bars) |-> ax.bars[k].label])]
    /\ pc' = "output"
    /\ UNCHANGED <<args, fileOpen, data, parameter_labels, x, n_channels, i,
                   shown, files, error, exitcode>>

\* if output is None
OutputIsNotNone == output # None

OutputIsNone == output = None

\* plt.show()
Show ==
    /\ pc = "output"
    /\ OutputIsNone
    /\ shown' = TRUE
    /\ pc' = "return"
    /\ UNCHANGED <<args, fileOpen, data, parameter_labels, x, n_channels, i,
                   ax, files, error, exitcode>>

\* plt.savefig(output, format='png', dpi=150, bbox_inches='tight')
Savefig ==
    /\ pc = "output"
    /\ ~OutputIsNone
    /\ IF output \in WritablePaths
       THEN /\ files' = files \cup {[path |-> output, format |-> "png", dpi |-> 150]}
            /\ pc' = "return"
            /\ UNCHANGED error
       ELSE /\ Raise("OSError", "plot")
            /\ UNCHANGED files
    /\ UNCHANGED <<args, fileOpen, data, parameter_labels, x, n_channels, i,
                   ax, shown, exitcode>>

\* The with block is left, by plot returning or by an exception passing
\* through: the file is closed and the process ends.
WithExit ==
    /\ pc \in {"return", "raise"}
    /\ fileOpen' = FALSE
    /\ exitcode' = IF error = None THEN Some(0) ELSE Some(1)
    /\ pc' = "done"
    /\ UNCHANGED <<args, data, parameter_labels, x, n_channels, i, ax, shown,
                   files, error>>

Next ==
    \/ Open
    \/ LoadTxt
    \/ ParameterLabels
    \/ Transpose
    \/ Subplots
    \/ Bar
    \/ SetTitle
    \/ SetXlabel
    \/ SetYlabel
    \/ SetXticks
    \/ SetXticklabels
    \/ Legend
    \/ Show
    \/ Savefig
    \/ WithExit

Spec == Init /\ [][Next]_vars

---------------------------------------------------------------------------
\* Vocabulary of the properties.
NRows == Len(file.rows)

\* Every row of the input has exactly w cells.
AllRowsOfWidth(w) ==
    /\ file.exists
    /\ \A r \in 1..NRows : Len(file.rows[r]) = w

\* A valid table: at least one row, 9 finite numeric cells in every row.
ValidTable ==
    /\ NRows >= 1
    /\ AllRowsOfWidth(9)
    /\ \A r \in 1..NRows : \A j \in 1..9 : file.rows[r][j].tok = "num"

\* Some row of the input does not have 1 + 8 cells.
WrongColumnCount ==
    /\ file.exists
    /\ \E r \in 1..NRows : Len(file.rows[r]) # 9

Succeeded == pc = "done" /\ error = None

Failed == pc = "done" /\ error # None

NBars == Len(ax.bars)

\* Offset of bar r of series k (1-based) from its category position r - 1.
Offset(k, r) == RSub(ax.bars[k].x[r], FromInt(r - 1))

Half(p) == RDiv(p, FromInt(2))

LeftEdge(k, r) == RSub(ax.bars[k].x[r], Half(ax.bars[k].width))

RightEdge(k, r) == RAdd(ax.bars[k].x[r], Half(ax.bars[k].width))

\* L is v truncated toward zero.
IsTruncation(L, v) ==
    IF v.n >= 0 THEN L * v.d <= v.n /\ v.n < (L + 1) * v.d
                ELSE (L - 1) * v.d < v.n /\ v.n <= L * v.d

---------------------------------------------------------------------------
\* C1: a run on a valid table of R >= 1 rows and 9 columns completes
\* without error and draws 8 bar series of R bars each, one group per row.
C1_ValidTableDrawsAllGroups ==
    (ValidTable /\ output \in WritablePaths \cup {None} /\ pc = "done") =>
        /\ error = None
        /\ exitcode = Some(0)
        /\ NBars = 8
        /\ \A k \in 1..NBars : Len(ax.bars[k].x) = NRows
        /\ ax.xticks # None /\ Len(ax.xticks[1]) = NRows

\* C2: an input with a row that does not have 1 + 8 columns never reaches
\* a rendering step, and its run ends with an error.
C2_WrongWidthFailsBeforeRendering ==
    WrongColumnCount =>
        /\ ~ax.created
        /\ NBars = 0
        /\ pc = "done" => error # None

\* C3: the exit action is selected by the output argument alone: with an
\* output path the display is never invoked and a successful run has written
\* exactly the PNG file at that path; without one no file is ever written and
\* a successful run has invoked the display.
C3_ExactlyOneExitAction ==
    /\ output # None => ~shown
    /\ output = None => files = {}
    /\ (Succeeded /\ output # None) =>
          /\ Cardinality(files) = 1
          /\ \A f \in files : f.path = output /\ f.format = "png"
    /\ (Succeeded /\ output = None) => shown

C3_Witness ==
    /\ Succeeded
    /\ output = Some("out.png")
    /\ files # {}
    /\ ~shown

\* C4 (as stated): at every step of rendering the input file is closed.
C4_ClosedWhileRendering ==
    pc \in {"subplots", "bar", "title", "xlabel", "ylabel", "xticks",
            "xticklabels", "legend", "output"} => ~fileOpen

\* C4 (amended): the file is open from the open call until the with block
\* is left, so through parsing and every step of plot, and closed after.
C4_OpenUntilWithExit ==
    fileOpen <=> pc \notin {"open", "done"}

C4_Witness ==
    /\ pc = "return"
    /\ shown
    /\ NBars = 8
    /\ fileOpen

\* C5: for a 9-column table the offset of series i (0..7) from the category
\* centre is -0.25 + i*(0.5/7); offsets are symmetric around 0 and strictly
\* increasing in i.
ClaimedOffset(k) == RAdd(Rat(-1, 4), RMul(FromInt(k), RDiv(Rat(1, 2), FromInt(7))))

C5_Offsets ==
    AllRowsOfWidth(9) =>
        /\ \A k \in 1..NBars : \A r \in 1..Len(ax.bars[k].x) :
              Offset(k, r) = ClaimedOffset(k - 1)
        /\ \A k, m \in 1..NBars :
              /\ (k - 1) + (m - 1) = 7 => Offset(k, 1) = RNeg(Offset(m, 1))
              /\ k < m => RLess(Offset(k, 1), Offset(m, 1))
        /\ NBars >= 1 => Offset(1, 1) = Rat(-1, 4)
        /\ NBars >= 8 => Offset(8, 1) = Rat(1, 4)

C5_Witness ==
    /\ AllRowsOfWidth(9)
    /\ NBars = 8
    /\ Offset(5, 1) = RNeg(Offset(4, 1))

\* C6: one tick per row at positions 0..R-1; the label of tick r is the
\* parameter of row r truncated toward zero, in row order, unsorted and
\* with repetitions kept.
C6_TickLabels ==
    ax.xticklabels # None =>
        /\ ax.xticks = Some([r \in 1..NRows |-> r - 1])
        /\ Len(ax.xticklabels[1]) = NRows
        /\ \A r \in 1..NRows :
              IsTruncation(ax.xticklabels[1][r], file.rows[r][1].v)

C6_Witness ==
    /\ ax.xticklabels = Some(<<2, -1>>)
    /\ file.rows[1][1] = Num(Rat(5, 2))
    /\ file.rows[2][1] = Num(Rat(-3, 2))

\* C7: the bars of table column i+1 carry the i-th name and the i-th colour
\* of the palette, whatever the data; the legend lists the names in column
\* order.
C7_PositionalBinding ==
    /\ \A k \in 1..NBars :
          /\ ax.bars[k].label = <<"async-channel::bounded", "flume::bounded",
                                  "futures::mpsc", "kanal", "postage::mpsc",
                                  "tachyonix", "thingbuf", "tokio::mpsc">>[k]
          /\ ax.bars[k].color = <<"tab:blue", "tab:orange", "tab:green",
                                  "tab:gray", "tab:purple", "tab:red",
                                  "tab:brown", "tab:pink">>[k]
          /\ \A r \in 1..NRows :
                ax.bars[k].height[r] =
                    Num(RMul(file.rows[r][k + 1].v, Rat(1, 1000000)))
    /\ ax.legend # None =>
          ax.legend[1] = [k \in 1..NBars |-> channel_labels[k]]

C7_Witness ==
    /\ NBars = 8
    /\ ax.legend # None
    /\ ax.bars[8].color = "tab:pink"
    /\ ax.bars[8].label = "tokio::mpsc"

\* C8: every failing run fails in open or loadtxt, before plot is entered,
\* and exits non-zero; exit status 0 means loading and rendering succeeded.
C8_FailuresComeFromLoader ==
    /\ Failed => /\ error[1].where \in {"open", "loadtxt"}
                 /\ exitcode = Some(1)
                 /\ ~ax.created
    /\ exitcode = Some(0) => error = None /\ (shown \/ files # {})

\* C9: show and savefig come last: they happen only after every series has
\* been drawn and title, labels, ticks, tick labels and legend are set; a
\* run that raised has written no file and shown no display.
C9_OutputIsLast ==
    /\ (shown \/ files # {}) =>
          /\ NBars = Len(file.rows[1]) - 1
          /\ ax.title = title
          /\ ax.xlabel = xlabel
          /\ ax.ylabel # None
          /\ ax.xticks # None
          /\ ax.xticklabels # None
          /\ ax.legend # None
    /\ error # None => files = {} /\ ~shown

C9_Witness ==
    /\ Failed
    /\ error[1].type = "IndexError"
    /\ NBars = 8
    /\ output = Some("out.png")
    /\ files = {}
    /\ ~shown

\* C10: with W = 0.5 and n = 8 no two bars overlap: consecutive series are
\* W/(n-1) apart, more than the bar width W/n, and a group reaches
\* W/2 + W/(2n) = 0.28125 < 0.5 to each side of its category position.
C10_NoOverlap ==
    AllRowsOfWidth(9) =>
        /\ \A k, m \in 1..NBars : \A r, q \in 1..NRows :
              <<k, r>> # <<m, q>> =>
                  \/ RLess(RightEdge(k, r), LeftEdge(m, q))
                  \/ RLess(RightEdge(m, q), LeftEdge(k, r))
        /\ \A k \in 1..NBars :
              /\ ax.bars[k].width = Rat(1, 16)
              /\ k > 1 => RSub(ax.bars[k].x[1], ax.bars[k - 1].x[1]) = Rat(1, 14)
              /\ \A r \in 1..NRows :
                    /\ ~RLess(LeftEdge(k, r), RSub(FromInt(r - 1), Rat(9, 32)))
                    /\ ~RLess(RAdd(FromInt(r - 1), Rat(9, 32)), RightEdge(k, r))
        /\ NBars >= 1 => LeftEdge(1, 1) = Rat(-9, 32)
        /\ NBars >= 8 => RightEdge(8, 1) = Rat(9, 32)

C10_Witness ==
    /\ AllRowsOfWidth(9)
    /\ NBars = 8
    /\ NRows >= 2
    /\ RightEdge(8, 1) = Rat(9, 32)
    /\ LeftEdge(1, 2) = Rat(23, 32)

====
